---- MODULE Spec2Model ----
(***************************************************************************)
(* Model of the upload handlers of learn-file-storage-s3-golang-starter.   *)
(*                                                                         *)
(* The repository holds three versions of handlerUploadVideo and two of    *)
(* handlerUploadThumbnail (Go allows one per build), so the build is a     *)
(* choice made in Init and never changed:                                  *)
(*   videoVariant "cdn"    src/handler_upload_video.go                     *)
(*   videoVariant "signed" src/unnamed/part_001 lines 1-243                *)
(*   videoVariant "static" src/unnamed/part_001 lines 245-418              *)
(*   thumbVariant "data"   src/handler_upload_thumbnail.go                 *)
(*   thumbVariant "disk"   src/unnamed/part_000                            *)
(* Requests run concurrently (net/http gives each its own goroutine); a    *)
(* step of the model is one call of a handler that touches the metadata    *)
(* store, the filesystem, an external tool or the object store.            *)
(***************************************************************************)
EXTENDS Integers, Sequences, FiniteSets, TLC

VARIABLES videoVariant, thumbVariant, records, fs, s3, req, probe, resolve

vars == <<videoVariant, thumbVariant, records, fs, s3, req, probe, resolve>>

(***************************************************************************)
(* Bounds of the model.                                                    *)
(***************************************************************************)
\* Requests served in one behaviour (they may overlap).
MaxRequests == 2
\* Distinct values the 32 random bytes of a key can take in the model.
MaxRand == 2
\* Longest stream list ffprobe reports in the model.
MaxStreams == 2

Requests == 1..MaxRequests

(***************************************************************************)
(* Data.                                                                   *)
(***************************************************************************)
Users == {"u1", "u2"}
VideoIDs == {"v1", "v2"}
\* A well-formed UUID that names no record.
UnknownID == "v9"

\* Strings built by fmt.Sprintf are sequences of tokens (a separator such as "/"
\* or "," is a token of its own); a nil *string is the empty sequence.
NoURL == <<>>
NoVideo == [ID |-> "", UserID |-> "", VideoURL |-> NoURL, ThumbnailURL |-> NoURL]

OwnerOf(v) == IF v = "v1" THEN "u1" ELSE "u2"

\* cfg.s3Bucket, cfg.s3Region, cfg.s3CfDistribution
s3Bucket == "bucket"
s3Region == "region"
s3CfDistribution == "cdn.example"

\* Temp-file names: os.CreateTemp gives every request a name of its own, and
\* processVideoForFastStart appends ".processing" to it.
Staged(r) == <<"tubely-upload.mp4", r>>
Processed(r) == <<"tubely-upload.mp4.processing", r>>
AssetFile(v) == <<"assets", IF v = "v1" THEN 1 ELSE 2>>
FileNames == {Staged(r) : r \in Requests} \cup {Processed(r) : r \in Requests}
               \cup {AssetFile(v) : v \in VideoIDs}

IdleReq ==
  [kind |-> "none", pc |-> "idle", userID |-> "", videoID |-> "",
   header |-> "unread", mediaType |-> "", video |-> NoVideo,
   dar |-> "", ratio |-> "", rand |-> 0, key |-> <<>>, stored |-> NoVideo,
   resp |-> 0, body |-> NoVideo, defers |-> <<>>, trace |-> <<>>]

IdleProbe == [state |-> "idle", status |-> "", streams |-> <<>>, err |-> FALSE, out |-> "", ratio |-> ""]

\* One call of dbVideoToSignedVideo on its own: the record handed in, how the
\* call ended ("ok", "error", "panic") and the record it returned.
IdleResolve == [state |-> "idle", bucket |-> "", key |-> <<>>, video |-> NoVideo,
                end |-> "", out |-> NoVideo]

\* What ffprobe can answer: it fails to run or exits non-zero ("runerr"), prints
\* something json.Unmarshal rejects ("badjson"), or prints a stream list.
Codecs == {"video", "audio"}
Dars == {"16:9", "9:16", "1.78", ""}
StreamInfos == [CodecType : Codecs, DisplayAspectRatio : Dars]

(***************************************************************************)
(* Helpers on sequences.                                                   *)
(***************************************************************************)
Range(s) == {s[i] : i \in 1..Len(s)}
Count(s, e) == Cardinality({i \in 1..Len(s) : s[i] = e})
Reverse(s) == [i \in 1..Len(s) |-> s[Len(s) + 1 - i]]
SeqsUpTo(S, n) == UNION {[1..k -> S] : k \in 0..n}

(***************************************************************************)
(* mime.ParseMediaType on the Content-Type values the model sends.  The    *)
(* result is [err, mediaType]: the media type is lower-cased and its       *)
(* parameters are dropped; an empty value, a missing subtype and a         *)
(* malformed parameter are errors.                                         *)
(***************************************************************************)
VideoHeaders == {"", "video/mp4", "Video/MP4; codecs=avc1", "video/mp4; codecs",
                 "image/png", "video/mpeg"}
ThumbHeaders == {"", "image/png", "image/jpeg"}

ParseMediaType(h) ==
  CASE h = "video/mp4"              -> [err |-> FALSE, mediaType |-> "video/mp4"]
    [] h = "Video/MP4; codecs=avc1" -> [err |-> FALSE, mediaType |-> "video/mp4"]
    [] h = "image/png"              -> [err |-> FALSE, mediaType |-> "image/png"]
    [] h = "video/mpeg"             -> [err |-> FALSE, mediaType |-> "video/mpeg"]
    [] h = "image/jpeg"             -> [err |-> FALSE, mediaType |-> "image/jpeg"]
    [] OTHER                        -> [err |-> TRUE, mediaType |-> ""]

\* The only media type handlerUploadVideo accepts.
AcceptedVideoTypeMutant(mediaType) == mediaType \in {"video/mp4", "video/mpeg"}
AcceptedVideoType(mediaType) == mediaType = "video/mp4"

\* video.UserID != userID rejects; these are its negation, in handlerUploadVideo
\* and in handlerUploadThumbnail.
VideoIsOwnerMutant(video, userID) == TRUE
VideoIsOwner(video, userID) == video.UserID = userID

ThumbIsOwnerMutant(video, userID) == TRUE
ThumbIsOwner(video, userID) == video.UserID = userID

(***************************************************************************)
(* A request's exit: respondWithError / respondWithJSON writes the         *)
(* response, then the handler returns and its deferred calls run.          *)
(***************************************************************************)
Respond(q, code, body) ==
  [q EXCEPT !.pc = "returning", !.resp = code, !.body = body,
            !.trace = Append(q.trace, "respond")]

Step(q, event, nextpc) == [q EXCEPT !.pc = nextpc, !.trace = Append(q.trace, event)]

Push(q, d) == [q EXCEPT !.defers = Append(q.defers, d)]

\* The deferred calls run when the handler returns, last registered first.
\* os.Remove of a name deletes that file; the Close calls and
\* MultipartForm.RemoveAll touch nothing the model holds.
RunDefers(r, defers, files) ==
  [f \in FileNames |->
     IF \/ f = Staged(r) /\ "Remove staged" \in Range(defers)
        \/ f = Processed(r) /\ "Remove processed" \in Range(defers)
       THEN "absent" ELSE files[f]]

Returned(q) ==
  [q EXCEPT !.pc = "done", !.defers = <<>>, !.trace = q.trace \o Reverse(q.defers)]

\* One step of request r ends with its locals q and the files as the step left
\* them; a step that wrote the response also returns and runs the defers (they
\* touch only files of this request, so no other request can tell the
\* difference).
Commit(r, q, files) ==
  /\ req' = [req EXCEPT ![r] = IF q.pc = "returning" THEN Returned(q) ELSE q]
  /\ fs' = IF q.pc = "returning" THEN RunDefers(r, q.defers, files) ELSE files

Init ==
  /\ videoVariant \in {"cdn", "signed", "static"}
  /\ thumbVariant \in {"data", "disk"}
  /\ records = [v \in VideoIDs |->
                  [ID |-> v, UserID |-> OwnerOf(v), VideoURL |-> NoURL, ThumbnailURL |-> NoURL]]
  /\ fs = [f \in FileNames |-> "absent"]
  /\ s3 = {}
  /\ req = [r \in Requests |-> IdleReq]
  /\ probe = IdleProbe
  /\ resolve = IdleResolve

(***************************************************************************)
(* Both handlers start alike: uuid.Parse of the path value, the bearer     *)
(* token, the JWT.  Nothing shared is read, so this is one step.           *)
(***************************************************************************)
Start(r) ==
  /\ req[r].pc = "idle"
  /\ \A i \in 1..(r - 1) : req[i].pc # "idle"
  /\ \E kind \in {"video", "thumbnail"} :
       LET q == [req[r] EXCEPT !.kind = kind] IN
       \/ \* uuid.Parse fails
          Commit(r, Respond(Step(q, "invalidID", "x"), 400, NoVideo), fs)
       \/ \* no bearer token, or a token that does not validate
          Commit(r, Respond(Step(q, "noJWT", "x"), 401, NoVideo), fs)
       \/ \E u \in Users, v \in VideoIDs \cup {UnknownID} :
            Commit(r, [q EXCEPT !.userID = u, !.videoID = v,
                                !.pc = IF kind = "video" THEN "getVideo" ELSE "formFile"], fs)
  /\ UNCHANGED <<videoVariant, thumbVariant, records, s3, probe, resolve>>


(***************************************************************************)
(* The metadata store (package internal/database), at its interface:        *)
(* get(videoID) -> record | NotFound and update(record) -> ok | error.     *)
(* update writes the whole record it is handed.                            *)
(***************************************************************************)
GetVideo(videoID) ==
  IF videoID \in DOMAIN records
    THEN [err |-> FALSE, video |-> records[videoID]]
    ELSE [err |-> TRUE, video |-> NoVideo]

UpdateVideo(video) == [records EXCEPT ![video.ID] = video]

(***************************************************************************)
(* handlerUploadVideo.                                                     *)
(***************************************************************************)
\* cfg.db.GetVideo and the ownership check.
VideoGetVideo(r) ==
  /\ req[r].kind = "video" /\ req[r].pc = "getVideo"
  /\ LET got == GetVideo(req[r].videoID)
         q == Step(req[r], "GetVideo", "formFile") IN
       Commit(r, IF got.err THEN Respond(q, 400, NoVideo)
                 ELSE IF ~VideoIsOwner(got.video, q.userID) THEN Respond(q, 401, NoVideo)
                 ELSE [q EXCEPT !.video = got.video], fs)
  /\ UNCHANGED <<videoVariant, thumbVariant, records, s3, probe, resolve>>


\* r.ParseMultipartForm, r.FormFile("video"), the two defers, and the
\* Content-Type check.
VideoFormFile(r) ==
  /\ req[r].kind = "video" /\ req[r].pc = "formFile"
  /\ LET q == Step(req[r], "FormFile", "createTemp") IN
       \/ \* the form has no "video" field
          Commit(r, Respond(q, 400, NoVideo), fs)
       \/ \E h \in VideoHeaders :
            LET q1 == Push(Push([q EXCEPT !.header = h], "uploadedVideo.Close"),
                           "MultipartForm.RemoveAll")
                parsed == ParseMediaType(h) IN
              Commit(r, IF parsed.err THEN Respond(q1, 400, NoVideo)
                        ELSE IF ~AcceptedVideoType(parsed.mediaType)
                          THEN Respond([q1 EXCEPT !.mediaType = parsed.mediaType], 400, NoVideo)
                        ELSE [q1 EXCEPT !.mediaType = parsed.mediaType], fs)
  /\ UNCHANGED <<videoVariant, thumbVariant, records, s3, probe, resolve>>


\* The deferred removal and close of the staged file.
DeferStagedCleanup(q) == Push(Push(q, "Remove staged"), "tmpFile.Close")

\* Where each build registers that cleanup: the static build right after
\* os.CreateTemp, the cdn and signed builds only after the probe succeeded.
CleanupAtCreate(variant) == variant = "static"

CleanupAfterProbe(variant) == variant \in {"cdn", "signed"}

\* os.CreateTemp("", "tubely-upload.mp4")
VideoCreateTemp(r) ==
  /\ req[r].kind = "video" /\ req[r].pc = "createTemp"
  /\ LET q == Step(req[r], "CreateTemp", "copy") IN
       \/ Commit(r, Respond(q, 500, NoVideo), fs)
       \/ Commit(r, IF CleanupAtCreate(videoVariant) THEN DeferStagedCleanup(q) ELSE q,
                 [fs EXCEPT ![Staged(r)] = "empty"])
  /\ UNCHANGED <<videoVariant, thumbVariant, records, s3, probe, resolve>>


\* io.Copy(tmpFile, uploadedVideo): a failed copy (the caller went away, the
\* disk is full) leaves what was written so far.
VideoCopy(r) ==
  /\ req[r].kind = "video" /\ req[r].pc = "copy"
  /\ LET q == Step(req[r], "Copy", "probe") IN
       \/ \E left \in {"empty", "data"} :
            Commit(r, Respond(q, 500, NoVideo), [fs EXCEPT ![Staged(r)] = left])
       \/ Commit(r, q, [fs EXCEPT ![Staged(r)] = "data"])
  /\ UNCHANGED <<videoVariant, thumbVariant, records, s3, probe, resolve>>


FfprobeOutputs ==
  {[status |-> st, streams |-> <<>>] : st \in {"runerr", "badjson"}}
    \cup {[status |-> "ok", streams |-> ss] : ss \in SeqsUpTo(StreamInfos, MaxStreams)}

(***************************************************************************)
(* getVideoAspectRatio: the loop over meta.Streams.                        *)
(***************************************************************************)
RECURSIVE ScanStreamsMutant(_)
ScanStreamsMutant(streams) ==
  IF streams = <<>> THEN "other"
  ELSE LET streamInfo == Head(streams) IN
    IF streamInfo.DisplayAspectRatio = "16:9" \/ streamInfo.DisplayAspectRatio = "9:16"
      THEN streamInfo.DisplayAspectRatio
    ELSE ScanStreamsMutant(Tail(streams))

RECURSIVE ScanStreams(_)
ScanStreams(streams) ==
  IF streams = <<>> THEN "other"
  ELSE LET streamInfo == Head(streams) IN
    IF streamInfo.CodecType # "video" THEN ScanStreams(Tail(streams))
    ELSE IF streamInfo.DisplayAspectRatio = "16:9" \/ streamInfo.DisplayAspectRatio = "9:16"
      THEN streamInfo.DisplayAspectRatio
    ELSE ScanStreams(Tail(streams))

getVideoAspectRatio(out) ==
  IF out.status # "ok" THEN [err |-> TRUE, ratio |-> ""]
  ELSE [err |-> FALSE, ratio |-> ScanStreams(out.streams)]

\* if ratio == "16:9" { ratio = "landscape" } else if ratio == "9:16" { ratio = "portrait" }
OrientationOfMutant(ratio) ==
  IF ratio = "16:9" THEN "landscape" ELSE "portrait"
OrientationOf(ratio) ==
  IF ratio = "16:9" THEN "landscape"
  ELSE IF ratio = "9:16" THEN "portrait"
  ELSE ratio

\* tmpFile.Seek, getVideoAspectRatio(tmpFile.Name()), the late defers of the
\* cdn and signed builds, and the mapping of the ratio.
VideoProbe(r) ==
  /\ req[r].kind = "video" /\ req[r].pc = "probe"
  /\ \E got \in {getVideoAspectRatio(out) : out \in FfprobeOutputs} :
       LET q == Step(req[r], "ffprobe", IF videoVariant = "static" THEN "put" ELSE "remux")
           q1 == IF CleanupAfterProbe(videoVariant) THEN DeferStagedCleanup(q) ELSE q IN
         Commit(r, IF got.err THEN Respond(q, 500, NoVideo)
                   ELSE [q1 EXCEPT !.dar = got.ratio, !.ratio = OrientationOf(got.ratio)], fs)
  /\ UNCHANGED <<videoVariant, thumbVariant, records, s3, probe, resolve>>


(***************************************************************************)
(* processVideoForFastStart: ffmpeg writes filepath + ".processing"; the   *)
(* function fails when ffmpeg exits non-zero, when os.Stat fails, or when  *)
(* the output is empty.  Whatever ffmpeg left on disk stays there.         *)
(***************************************************************************)
processVideoForFastStart(exit, output) ==
  IF exit # 0 THEN [err |-> TRUE, msg |-> "ffmpeg"]
  ELSE IF output = "absent" THEN [err |-> TRUE, msg |-> "could not stat processed file"]
  ELSE IF output = "empty" THEN [err |-> TRUE, msg |-> "processed file is empty"]
  ELSE [err |-> FALSE, msg |-> ""]

VideoRemux(r) ==
  /\ videoVariant \in {"cdn", "signed"}
  /\ req[r].kind = "video" /\ req[r].pc = "remux"
  /\ \E exit \in {0, 1}, output \in {"absent", "empty", "data"} :
       LET q == Step(req[r], "ffmpeg", "open")
           got == processVideoForFastStart(exit, output) IN
         Commit(r, IF got.err THEN Respond(q, 500, NoVideo) ELSE Push(q, "Remove processed"),
                [fs EXCEPT ![Processed(r)] = output])
  /\ UNCHANGED <<videoVariant, thumbVariant, records, s3, probe, resolve>>


\* os.Open(processed)
VideoOpen(r) ==
  /\ req[r].kind = "video" /\ req[r].pc = "open"
  /\ LET q == Step(req[r], "Open", "put") IN
       \/ Commit(r, Respond(q, 500, NoVideo), fs)
       \/ Commit(r, Push(q, "processedFile.Close"), fs)
  /\ UNCHANGED <<videoVariant, thumbVariant, records, s3, probe, resolve>>


(***************************************************************************)
(* Key derivation.  base64.RawURLEncoding.EncodeToString is one-to-one;    *)
(* the model names the random values it draws.                             *)
(***************************************************************************)
RandValues == 1..MaxRand
RandNames == <<"kq3xZm9v", "YmFyYmF6", "cXV1eHF1", "Zm9vYmFy", "c2l4c2l4">>
EncodeToString(n) == RandNames[n]

\* getAssetPath of the cdn and signed builds (defined outside the handler
\* files): 32 random bytes, URL-safe unpadded base64, the fixed extension.
getAssetPath(n) == <<EncodeToString(n), ".mp4">>

\* key := fmt.Sprintf("%v/%v", ratio, getAssetPath(...))
FormatKeyMutant(ratio, assetPath) == <<"other", "/">> \o assetPath
FormatKey(ratio, assetPath) == <<ratio, "/">> \o assetPath

\* key := fmt.Sprintf("%v/%v.mp4", ratio, rawUrlEncoding) of the static build
FormatKeyStaticMutant(ratio, rawUrlEncoding) == <<ratio, "/", "video", ".mp4">>
FormatKeyStatic(ratio, rawUrlEncoding) == <<ratio, "/", rawUrlEncoding, ".mp4">>

DeriveKey(variant, ratio, n) ==
  IF variant = "static" THEN FormatKeyStatic(ratio, EncodeToString(n))
  ELSE FormatKey(ratio, getAssetPath(n))

\* s3Client.PutObject: the object under a key is replaced.
PutObject(objects, obj) == {o \in objects : o.key # obj.key} \cup {obj}

\* if err != nil { respondWithError(w, http.StatusInternalServerError, ...); return }
\* after cfg.s3Client.PutObject.
AfterPutRetryMutant(q, err) == IF err THEN [q EXCEPT !.pc = "put"] ELSE q
AfterPutMutant(q, err) == q
AfterPut(q, err) == IF err THEN Respond(q, 500, NoVideo) ELSE q

\* Key derivation and cfg.s3Client.PutObject.  The body is the processed
\* file in the cdn and signed builds and the staged file in the static one.
VideoPutObject(r) ==
  /\ req[r].kind = "video" /\ req[r].pc = "put"
  /\ \E n \in RandValues :
       LET key == DeriveKey(videoVariant, req[r].ratio, n)
           q == [Step(req[r], "PutObject", "update") EXCEPT !.rand = n, !.key = key]
           src == IF videoVariant = "static" THEN "staged" ELSE "processed"
           file == IF videoVariant = "static" THEN Staged(r) ELSE Processed(r)
           obj == [key |-> key, contentType |-> q.mediaType, src |-> src,
                   from |-> r, content |-> fs[file]] IN
         \/ /\ Commit(r, AfterPut(q, TRUE), fs)
            /\ s3' = s3
         \/ /\ Commit(r, AfterPut(q, FALSE), fs)
            /\ s3' = PutObject(s3, obj)
  /\ UNCHANGED <<videoVariant, thumbVariant, records, probe, resolve>>


VideoURLForMutant(variant, key) ==
  <<"https://", s3Bucket, ".s3.", s3Region, ".amazonaws.com", "/">> \o key
    \o <<"?", "X-Amz-Expires=5", "&", "X-Amz-Signature">>

\* The reference each build stores in video.VideoURL.
VideoURLFor(variant, key) ==
  CASE variant = "cdn"    -> <<"https://", s3CfDistribution, "/">> \o key
    [] variant = "signed" -> <<s3Bucket, ",">> \o key
    [] variant = "static" -> <<"https://", s3Bucket, ".s3.", s3Region, ".amazonaws.com", "/">> \o key

\* if err != nil { respondWithError(w, http.StatusInternalServerError, ...); return }
\* after cfg.db.UpdateVideo.
AfterUpdateFailedMutant(q) == Respond(q, 200, q.video)
AfterUpdateFailed(q) == Respond(q, 500, NoVideo)

\* video.VideoURL = &videoURL; cfg.db.UpdateVideo(video); then the response,
\* or in the signed build the resolution of the signed URL.
VideoUpdateVideo(r) ==
  /\ req[r].kind = "video" /\ req[r].pc = "update"
  /\ LET video == [req[r].video EXCEPT !.VideoURL = VideoURLFor(videoVariant, req[r].key)]
         q == [Step(req[r], "UpdateVideo", "sign") EXCEPT !.video = video] IN
       \/ /\ Commit(r, AfterUpdateFailed(q), fs)
          /\ records' = records
       \/ /\ Commit(r, IF videoVariant = "signed" THEN [q EXCEPT !.stored = video]
                       ELSE Respond([q EXCEPT !.stored = video], 200, video), fs)
          /\ records' = UpdateVideo(video)
  /\ UNCHANGED <<videoVariant, thumbVariant, s3, probe, resolve>>


(***************************************************************************)
(* dbVideoToSignedVideo and generatePresignedURL (signed build).           *)
(***************************************************************************)
RECURSIVE Split(_, _)
Split(str, sep) ==
  LET at == {i \in 1..Len(str) : str[i] = sep} IN
    IF at = {} THEN <<str>>
    ELSE LET i == CHOOSE j \in at : \A k \in at : j <= k IN
      <<SubSeq(str, 1, i - 1)>> \o Split(SubSeq(str, i + 1, Len(str)), sep)

\* The URL the presign client returns for bucket and key, valid expireTime.
PresignedURL(bucket, key) ==
  <<"https://">> \o bucket \o <<".s3.", s3Region, ".amazonaws.com", "/">> \o key
    \o <<"?", "X-Amz-Expires=5", "&", "X-Amz-Signature">>

dbVideoToSignedVideoMutant(video, presignFails) ==
  LET splitted == Split(video.VideoURL, ",") IN
    IF Len(splitted) < 2 THEN [err |-> FALSE, video |-> video]
    ELSE IF presignFails THEN [err |-> TRUE, video |-> video]
    ELSE [err |-> FALSE,
          video |-> [video EXCEPT !.VideoURL = PresignedURL(splitted[2], splitted[1])]]

dbVideoToSignedVideo(video, presignFails) ==
  LET splitted == Split(video.VideoURL, ",") IN
    IF Len(splitted) < 2 THEN [err |-> FALSE, video |-> video]
    ELSE IF presignFails THEN [err |-> TRUE, video |-> video]
    ELSE [err |-> FALSE,
          video |-> [video EXCEPT !.VideoURL = PresignedURL(splitted[1], splitted[2])]]

VideoSign(r) ==
  /\ videoVariant = "signed"
  /\ req[r].kind = "video" /\ req[r].pc = "sign"
  /\ \E presignFails \in BOOLEAN :
       LET got == dbVideoToSignedVideo(req[r].video, presignFails)
           q == [Step(req[r], "Presign", "x") EXCEPT !.video = got.video] IN
         Commit(r, IF got.err THEN Respond(q, 500, NoVideo) ELSE Respond(q, 200, got.video), fs)
  /\ UNCHANGED <<videoVariant, thumbVariant, records, s3, probe, resolve>>


(***************************************************************************)
(* handlerUploadThumbnail.  The data build stores the image as a data URL  *)
(* (the Content-Type header is used as sent); the disk build parses the    *)
(* header, accepts image/jpg and image/png, and writes a file under the    *)
(* assets root.                                                            *)
(***************************************************************************)
ThumbBodies == <<"aW1nMQ", "aW1nMg", "aW1nMw", "aW1nNA">>

AcceptedThumbType(mediaType) == mediaType = "image/jpg" \/ mediaType = "image/png"

\* r.FormFile("thumbnail"), the two defers, then io.ReadAll (data build) or
\* the Content-Type check (disk build).
ThumbFormFile(r) ==
  /\ req[r].kind = "thumbnail" /\ req[r].pc = "formFile"
  /\ LET q == Step(req[r], "FormFile", "getVideo") IN
       \/ Commit(r, Respond(q, 400, NoVideo), fs)
       \/ \E h \in ThumbHeaders :
            LET q1 == Push(Push([q EXCEPT !.header = h], "file.Close"),
                           "MultipartForm.RemoveAll")
                parsed == ParseMediaType(h) IN
              IF thumbVariant = "data"
                THEN \/ \* io.ReadAll fails
                        Commit(r, Respond([q1 EXCEPT !.mediaType = h], 400, NoVideo), fs)
                     \/ Commit(r, [q1 EXCEPT !.mediaType = h], fs)
                ELSE Commit(r, IF parsed.err THEN Respond(q1, 400, NoVideo)
                        ELSE IF ~AcceptedThumbType(parsed.mediaType)
                          THEN Respond([q1 EXCEPT !.mediaType = parsed.mediaType], 400, NoVideo)
                        ELSE [q1 EXCEPT !.mediaType = parsed.mediaType], fs)
  /\ UNCHANGED <<videoVariant, thumbVariant, records, s3, probe, resolve>>


\* cfg.db.GetVideo and the ownership check.
ThumbGetVideo(r) ==
  /\ req[r].kind = "thumbnail" /\ req[r].pc = "getVideo"
  /\ LET got == GetVideo(req[r].videoID)
         q == Step(req[r], "GetVideo", IF thumbVariant = "disk" THEN "store" ELSE "update") IN
       Commit(r, IF got.err THEN Respond(q, 400, NoVideo)
                 ELSE IF ~ThumbIsOwner(got.video, q.userID) THEN Respond(q, 401, NoVideo)
                 ELSE [q EXCEPT !.video = got.video], fs)
  /\ UNCHANGED <<videoVariant, thumbVariant, records, s3, probe, resolve>>


\* Disk build: os.Create(assetDiskPath), defer file.Close, io.Copy.
ThumbStore(r) ==
  /\ thumbVariant = "disk"
  /\ req[r].kind = "thumbnail" /\ req[r].pc = "store"
  /\ LET q == Step(req[r], "Create", "update")
         asset == AssetFile(req[r].videoID) IN
       \/ Commit(r, Respond(q, 500, NoVideo), fs)
       \/ \E left \in {"empty", "data"} :
            Commit(r, Respond(Step(Push(q, "file.Close"), "Copy", "x"), 500, NoVideo),
                   [fs EXCEPT ![asset] = left])
       \/ Commit(r, Step(Push(q, "file.Close"), "Copy", "update"), [fs EXCEPT ![asset] = "data"])
  /\ UNCHANGED <<videoVariant, thumbVariant, records, s3, probe, resolve>>


\* The reference each build stores in video.ThumbnailURL.
ThumbnailURLFor(variant, r, q) ==
  IF variant = "data"
    THEN <<"data:", q.mediaType, ";base64,", ThumbBodies[r]>>
    ELSE <<"http://localhost/", "assets", "/", q.videoID, ".",
           IF q.mediaType = "image/png" THEN "png" ELSE "jpg">>

\* video.ThumbnailURL = &url; cfg.db.UpdateVideo(video); the response.
ThumbUpdateVideo(r) ==
  /\ req[r].kind = "thumbnail" /\ req[r].pc = "update"
  /\ LET video == [req[r].video EXCEPT
                     !.ThumbnailURL = ThumbnailURLFor(thumbVariant, r, req[r])]
         q == [Step(req[r], "UpdateVideo", "x") EXCEPT !.video = video] IN
       \/ /\ Commit(r, Respond(q, 500, NoVideo), fs)
          /\ records' = records
       \/ /\ Commit(r, Respond([q EXCEPT !.stored = video], 200, video), fs)
          /\ records' = UpdateVideo(video)
  /\ UNCHANGED <<videoVariant, thumbVariant, s3, probe, resolve>>


(***************************************************************************)
(* The server: any number of requests in flight, each at its own step.     *)
(***************************************************************************)
Next ==
  \E r \in Requests :
    \/ Start(r)
    \/ VideoGetVideo(r)
    \/ VideoFormFile(r)
    \/ VideoCreateTemp(r)
    \/ VideoCopy(r)
    \/ VideoProbe(r)
    \/ VideoRemux(r)
    \/ VideoOpen(r)
    \/ VideoPutObject(r)
    \/ VideoUpdateVideo(r)
    \/ VideoSign(r)
    \/ ThumbFormFile(r)
    \/ ThumbGetVideo(r)
    \/ ThumbStore(r)
    \/ ThumbUpdateVideo(r)

Spec == Init /\ [][Next]_vars

(***************************************************************************)
(* The probe on its own: every answer of ffprobe within the bounds, and    *)
(* what getVideoAspectRatio and the handler's mapping make of it.          *)
(***************************************************************************)
InitProbe ==
  /\ videoVariant \in {"cdn", "signed", "static"}
  /\ thumbVariant \in {"data", "disk"}
  /\ records = [v \in VideoIDs |->
                  [ID |-> v, UserID |-> OwnerOf(v), VideoURL |-> NoURL, ThumbnailURL |-> NoURL]]
  /\ fs = [f \in FileNames |-> "absent"]
  /\ s3 = {}
  /\ req = [r \in Requests |-> IdleReq]
  /\ \E out \in FfprobeOutputs :
       probe = [IdleProbe EXCEPT !.state = "ready", !.status = out.status,
                                 !.streams = out.streams]
  /\ resolve = IdleResolve

ProbeRun ==
  /\ probe.state = "ready"
  /\ LET got == getVideoAspectRatio([status |-> probe.status, streams |-> probe.streams]) IN
       probe' = [probe EXCEPT !.state = "done", !.err = got.err, !.out = got.ratio,
                              !.ratio = IF got.err THEN "" ELSE OrientationOf(got.ratio)]
  /\ UNCHANGED <<videoVariant, thumbVariant, records, fs, s3, req, resolve>>

NextProbe == ProbeRun

SpecProbe == InitProbe /\ [][NextProbe]_vars

(***************************************************************************)
(* Vocabulary of the properties.                                           *)
(***************************************************************************)
IsVideo(q) == q.kind = "video"
Returned200(q) == q.pc = "done" /\ q.resp = 200

\* The step after which the response was written.
LastStepBeforeResponse(q) ==
  LET at == {i \in 2..Len(q.trace) : q.trace[i] = "respond"} IN
    IF at = {} THEN "" ELSE q.trace[(CHOOSE i \in at : TRUE) - 1]

\* The request passed the Content-Type validation of handlerUploadVideo.
PassedValidation(q) == IsVideo(q) /\ "CreateTemp" \in Range(q.trace)

TempFilesOf(r) == {Staged(r), Processed(r)}
TempFilesLeft(r) == {f \in TempFilesOf(r) : fs[f] # "absent"}

(***************************************************************************)
(* C1: after a video upload that passed content-type validation has        *)
(* returned (200 or any error), none of its temp files (the staged file,   *)
(* the ".processing" output) exists.                                       *)
(***************************************************************************)
C1_NoTempFileAfterReturn ==
  \A r \in Requests :
    (PassedValidation(req[r]) /\ req[r].pc = "done") => TempFilesLeft(r) = {}

(***************************************************************************)
(* C2: when the copy into the staged file fails or the probe returns an    *)
(* error, the request ends with 500 and the staged file has been deleted   *)
(* when the handler returns.                                               *)
(***************************************************************************)
C2_StagedDeletedOnCopyOrProbeFailure ==
  \A r \in Requests :
    (/\ IsVideo(req[r]) /\ req[r].pc = "done"
     /\ req[r].resp # 200
     /\ LastStepBeforeResponse(req[r]) \in {"Copy", "ffprobe"})
      => (req[r].resp = 500 /\ fs[Staged(r)] = "absent")

(***************************************************************************)
(* C3: when the remux step fails (ffmpeg exits non-zero, or exits zero     *)
(* with a missing or empty output), the request ends with 500, puts no     *)
(* object, leaves the record alone, and neither temp file exists after     *)
(* the handler returns.                                                    *)
(***************************************************************************)
C3_RemuxFailureLeavesNothing ==
  \A r \in Requests :
    (/\ IsVideo(req[r]) /\ req[r].pc = "done"
     /\ LastStepBeforeResponse(req[r]) = "ffmpeg")
      => /\ req[r].resp = 500
         /\ "PutObject" \notin Range(req[r].trace)
         /\ \A o \in s3 : o.from # r
         /\ "UpdateVideo" \notin Range(req[r].trace)
         /\ req[r].stored = NoVideo
         /\ fs[Staged(r)] = "absent"
         /\ fs[Processed(r)] = "absent"

\* Request r took the step.
Acted(r) == req'[r] # req[r]
Calls(q, event) == Count(q.trace, event)

(***************************************************************************)
(* C4: a record's media references are written only by a request whose     *)
(* authenticated user is the record's owner; no request of another user    *)
(* reaches UpdateVideo for the record, in either handler.                  *)
(***************************************************************************)
C4_OnlyOwnerWritesRecord ==
  [][/\ records' # records => \E r \in Requests : Acted(r)
     /\ \A v \in VideoIDs : records'[v].UserID = records[v].UserID /\ records'[v].ID = v
     /\ \A r \in Requests :
          (Acted(r) /\ (records' # records
                          \/ Calls(req'[r], "UpdateVideo") > Calls(req[r], "UpdateVideo")))
            => /\ req[r].videoID \in VideoIDs
               /\ req[r].userID = records[req[r].videoID].UserID
               /\ \A v \in VideoIDs \ {req[r].videoID} : records'[v] = records[v]]_vars

\* C4 witness: an owner's upload was stored and another user's thumbnail upload
\* to the same record was refused after the record was fetched.
C4_Witness ==
  \E r1, r2 \in Requests :
    /\ Returned200(req[r1]) /\ req[r1].stored # NoVideo
    /\ req[r2].pc = "done" /\ req[r2].resp = 401
    /\ req[r2].kind = "thumbnail"
    /\ "GetVideo" \in Range(req[r2].trace)
    /\ req[r2].videoID = req[r1].videoID
    /\ req[r2].userID # records[req[r1].videoID].UserID
    /\ records[req[r1].videoID].UserID = req[r1].userID

(***************************************************************************)
(* C5: a video upload whose authenticated user is not the owner of the     *)
(* target record ends with 401 and mutates nothing: no temp file, no       *)
(* external tool, no object-store put, no metadata write.                  *)
(***************************************************************************)
NotOwnerVideoUpload(q) ==
  /\ IsVideo(q)
  /\ q.videoID \in VideoIDs
  /\ q.userID # records[q.videoID].UserID

C5_NotOwnerIs401AndMutatesNothing ==
  [][\A r \in Requests :
       (Acted(r) /\ NotOwnerVideoUpload(req'[r]))
         => /\ fs' = fs /\ s3' = s3 /\ records' = records
            /\ Range(req'[r].trace) \subseteq {"GetVideo", "respond"}
            /\ req'[r].pc \in {"getVideo", "done"}
            /\ req'[r].pc = "done" => req'[r].resp = 401]_vars

\* C5 witness: a video upload by a user who does not own the record has
\* returned 401 right after GetVideo.
C5_Witness ==
  \E r \in Requests :
    /\ NotOwnerVideoUpload(req[r])
    /\ req[r].pc = "done" /\ req[r].resp = 401
    /\ req[r].trace = <<"GetVideo", "respond">>

(***************************************************************************)
(* C6: a video upload whose declared content type is absent, unparseable   *)
(* or anything but video/mp4 ends with 400 before any temp file is         *)
(* created, with no object-store put and no metadata write.  (The handler  *)
(* reads the content type after authentication and the ownership check;    *)
(* a request refused there never declares one to the handler.)             *)
(***************************************************************************)
AbsentContentType == {""}
UnparseableContentType == {"video/mp4; codecs"}
OtherContentType == {"image/png", "video/mpeg"}
BadContentType(q) ==
  IsVideo(q) /\ q.header \in AbsentContentType \cup UnparseableContentType \cup OtherContentType

C6_BadContentTypeIs400BeforeStaging ==
  [][\A r \in Requests :
       (Acted(r) /\ BadContentType(req'[r]))
         => /\ req'[r].pc = "done" /\ req'[r].resp = 400
            /\ fs' = fs /\ s3' = s3 /\ records' = records
            /\ fs'[Staged(r)] = "absent" /\ fs'[Processed(r)] = "absent"
            /\ Range(req'[r].trace) \cap {"CreateTemp", "PutObject", "UpdateVideo"} = {}]_vars

\* C6 witness: one upload declared image/png and one with an unparseable
\* Content-Type have both returned 400.
C6_Witness ==
  \E r1, r2 \in Requests :
    /\ BadContentType(req[r1]) /\ req[r1].header = "image/png"
    /\ req[r1].pc = "done" /\ req[r1].resp = 400
    /\ BadContentType(req[r2]) /\ req[r2].header = "video/mp4; codecs"
    /\ req[r2].pc = "done" /\ req[r2].resp = 400

(***************************************************************************)
(* The classification a display-aspect-ratio string stands for.            *)
(***************************************************************************)
Orientations == {"landscape", "portrait", "other"}
ClassOf(dar) ==
  CASE dar = "16:9" -> "landscape"
    [] dar = "9:16" -> "portrait"
    [] OTHER        -> "other"

VideoStreamsAt(streams) == {i \in 1..Len(streams) : streams[i].CodecType = "video"}
Least(S) == CHOOSE i \in S : \A j \in S : i <= j

(***************************************************************************)
(* C7: classification is exact string equality: "16:9" is landscape,       *)
(* "9:16" is portrait, any other string (such as "1.78") or no video       *)
(* stream at all is other; the result is always one of landscape,          *)
(* portrait, other.  The ratio string classified is that of the one video  *)
(* stream of the probe; with several, landscape and portrait still come    *)
(* only from a video stream reporting exactly "16:9" or "9:16".            *)
(***************************************************************************)
C7_ExactStringClassification ==
  (probe.state = "done" /\ ~probe.err)
    => LET at == VideoStreamsAt(probe.streams) IN
         /\ probe.ratio \in Orientations
         /\ at = {} => probe.ratio = "other"
         /\ Cardinality(at) = 1
              => probe.ratio = ClassOf(probe.streams[Least(at)].DisplayAspectRatio)
         /\ probe.ratio = "landscape"
              => \E i \in at : probe.streams[i].DisplayAspectRatio = "16:9"
         /\ probe.ratio = "portrait"
              => \E i \in at : probe.streams[i].DisplayAspectRatio = "9:16"

\* C7 witness: an audio stream reporting "16:9" and a video stream reporting
\* "1.78" classify as other.
C7_Witness ==
  /\ probe.state = "done" /\ ~probe.err
  /\ probe.streams = <<[CodecType |-> "audio", DisplayAspectRatio |-> "16:9"],
                       [CodecType |-> "video", DisplayAspectRatio |-> "1.78"]>>
  /\ probe.ratio = "other"

(***************************************************************************)
(* C8 as stated: the classification is that of the first stream whose      *)
(* codec type is "video", so a first video stream with another ratio       *)
(* yields other even when a later video stream reports "16:9" or "9:16".   *)
(***************************************************************************)
C8_FirstVideoStreamDecides ==
  (probe.state = "done" /\ ~probe.err)
    => LET at == VideoStreamsAt(probe.streams) IN
         probe.ratio = IF at = {} THEN "other"
                       ELSE ClassOf(probe.streams[Least(at)].DisplayAspectRatio)

(***************************************************************************)
(* C8 amended: the classification is that of the first stream whose codec  *)
(* type is "video" and whose display-aspect-ratio is exactly "16:9" or     *)
(* "9:16"; video streams with any other ratio are passed over, and the     *)
(* result is other only when no video stream reports one of the two.       *)
(***************************************************************************)
C8_FirstRecognizedVideoStreamDecides ==
  (probe.state = "done" /\ ~probe.err)
    => LET at == {i \in VideoStreamsAt(probe.streams) :
                    probe.streams[i].DisplayAspectRatio \in {"16:9", "9:16"}} IN
         probe.ratio = IF at = {} THEN "other"
                       ELSE ClassOf(probe.streams[Least(at)].DisplayAspectRatio)

\* C8 witness: a video stream reporting "1.78" followed by one reporting "9:16"
\* classifies as portrait.
C8_Witness ==
  /\ probe.state = "done" /\ ~probe.err
  /\ probe.streams = <<[CodecType |-> "video", DisplayAspectRatio |-> "1.78"],
                       [CodecType |-> "video", DisplayAspectRatio |-> "9:16"]>>
  /\ probe.ratio = "portrait"

(***************************************************************************)
(* Reading a stored reference and a key back.                              *)
(***************************************************************************)
After(str, sep) ==
  LET at == {i \in 1..Len(str) : str[i] = sep} IN
    IF at = {} THEN <<>> ELSE SubSeq(str, Least(at) + 1, Len(str))
Before(str, sep) ==
  LET at == {i \in 1..Len(str) : str[i] = sep} IN
    IF at = {} THEN str ELSE SubSeq(str, 1, Least(at) - 1)

\* The key a video reference names: what follows the host of a URL, or the
\* bucket of a "<bucket>,<key>" pair.
KeyNamedBy(url) == IF "," \in Range(url) THEN After(url, ",") ELSE After(url, "/")
FirstPathSegment(key) == Before(key, "/")

(***************************************************************************)
(* C9: when a video upload ends with 200, the object store holds an        *)
(* object under a key K whose first path segment is the orientation        *)
(* classification of the probed file ("portrait" for a probe reporting     *)
(* "9:16"), and the video reference the request persisted in the record    *)
(* names exactly K.                                                        *)
(***************************************************************************)
C9_Status200KeyAndReference ==
  [][\A r \in Requests :
       IsVideo(req'[r]) =>
         /\ (Acted(r) /\ req'[r].stored # req[r].stored)
              => records'[req'[r].videoID] = req'[r].stored
         /\ Returned200(req'[r])
              => /\ \E o \in s3' : o.key = req'[r].key
                 /\ FirstPathSegment(req'[r].key) = <<ClassOf(req'[r].dar)>>
                 /\ req'[r].stored.ID = req'[r].videoID
                 /\ KeyNamedBy(req'[r].stored.VideoURL) = req'[r].key]_vars

\* C9 witness: an upload probed as "9:16" returned 200; its object lies under
\* "portrait/" and the record names that key.
C9_Witness ==
  \E r \in Requests :
    /\ IsVideo(req[r]) /\ Returned200(req[r])
    /\ req[r].dar = "9:16"
    /\ FirstPathSegment(req[r].key) = <<"portrait">>
    /\ KeyNamedBy(records[req[r].videoID].VideoURL) = req[r].key
    /\ \E o \in s3 : o.key = req[r].key /\ o.from = r

(***************************************************************************)
(* C10 as stated: no two uploads, to this or any other record, ever use    *)
(* the same storage key.                                                   *)
(***************************************************************************)
Uploaded(q) == IsVideo(q) /\ "PutObject" \in Range(q.trace)

C10_KeysNeverReused ==
  \A r1, r2 \in Requests :
    (r1 # r2 /\ Uploaded(req[r1]) /\ Uploaded(req[r2])) => req[r1].key # req[r2].key

(***************************************************************************)
(* C10 amended: each successful upload overwrites the record's video       *)
(* reference with a reference to the key derived in that request from its  *)
(* orientation and the 32 bytes it read from the random source, and two    *)
(* uploads use the same key exactly when their orientation and those       *)
(* bytes are the same (nothing checks a new key against the keys in use).  *)
(***************************************************************************)
C10_KeyDerivedPerUpload ==
  [][/\ \A r \in Requests :
          (IsVideo(req'[r]) /\ Acted(r) /\ req'[r].stored # req[r].stored)
            => /\ records'[req'[r].videoID].VideoURL = req'[r].stored.VideoURL
               /\ KeyNamedBy(records'[req'[r].videoID].VideoURL) = req'[r].key
               /\ Calls(req'[r], "PutObject") = 1
     /\ \A r1, r2 \in Requests :
          (Uploaded(req'[r1]) /\ Uploaded(req'[r2]))
            => ((req'[r1].key = req'[r2].key)
                  <=> (req'[r1].ratio = req'[r2].ratio /\ req'[r1].rand = req'[r2].rand))]_vars

\* C10 witness: two successful uploads to one record, of the same orientation,
\* under different keys; the record names the key of the second.
C10_Witness ==
  \E r1, r2 \in Requests :
    /\ r1 # r2
    /\ IsVideo(req[r1]) /\ Returned200(req[r1])
    /\ IsVideo(req[r2]) /\ Returned200(req[r2])
    /\ req[r1].videoID = req[r2].videoID
    /\ req[r1].ratio = req[r2].ratio
    /\ req[r1].key # req[r2].key
    /\ KeyNamedBy(records[req[r2].videoID].VideoURL) = req[r2].key

(***************************************************************************)
(* What a request's trace says of its object-store put.                    *)
(***************************************************************************)
PutFailedIn(q) ==
  \E i \in 1..(Len(q.trace) - 1) : q.trace[i] = "PutObject" /\ q.trace[i + 1] = "respond"
PutSucceededIn(q) == "PutObject" \in Range(q.trace) /\ ~PutFailedIn(q)

(***************************************************************************)
(* C11: UpdateVideo is called only by a request whose own put succeeded    *)
(* (the object lies in the store under the request's key); a request       *)
(* whose put fails ends with 500 in that step, never calls UpdateVideo,    *)
(* leaves the record and the store as they were, and neither of its temp   *)
(* files exists when the handler has returned.                             *)
(***************************************************************************)
C11_UpdateOnlyAfterSuccessfulPut ==
  [][\A r \in Requests :
       (IsVideo(req'[r]) /\ Acted(r)) =>
         /\ Calls(req'[r], "UpdateVideo") > Calls(req[r], "UpdateVideo")
              => /\ PutSucceededIn(req[r])
                 /\ \E o \in s3 : o.key = req[r].key
         /\ Calls(req'[r], "PutObject") > Calls(req[r], "PutObject") /\ s3' = s3
              => /\ req'[r].pc = "done" /\ req'[r].resp = 500
                 /\ PutFailedIn(req'[r])
                 /\ "UpdateVideo" \notin Range(req'[r].trace)
                 /\ req'[r].stored = NoVideo
                 /\ records' = records
                 /\ fs'[Staged(r)] = "absent" /\ fs'[Processed(r)] = "absent"]_vars

\* C11 witness: in a build that remuxes, a request whose put failed has
\* returned 500 after creating both temp files, and another request of the
\* same behaviour has written the record after its put.
C11_Witness ==
  \E r1, r2 \in Requests :
    /\ IsVideo(req[r1]) /\ req[r1].pc = "done" /\ req[r1].resp = 500
    /\ PutFailedIn(req[r1]) /\ "ffmpeg" \in Range(req[r1].trace)
    /\ fs[Staged(r1)] = "absent" /\ fs[Processed(r1)] = "absent"
    /\ IsVideo(req[r2]) /\ Returned200(req[r2]) /\ PutSucceededIn(req[r2])

(***************************************************************************)
(* The calls a video upload makes, as its trace names them, and what a     *)
(* handler's return appends (the response, then the deferred calls).       *)
(***************************************************************************)
VideoSteps == {"invalidID", "noJWT", "GetVideo", "FormFile", "CreateTemp", "Copy",
               "ffprobe", "ffmpeg", "Open", "PutObject", "UpdateVideo", "Presign"}
ObjectsPutBy(r) == {o \in s3 : o.from = r}

(***************************************************************************)
(* C12: every video upload issues at most one object-store put and at      *)
(* most one metadata write on every path; no step is run a second time,    *)
(* and after the response is written (on a failure or on success) the      *)
(* request makes no further call.                                          *)
(***************************************************************************)
C12_AtMostOnePutAndOneUpdate ==
  \A r \in Requests :
    IsVideo(req[r]) =>
      /\ Calls(req[r], "PutObject") <= 1
      /\ Calls(req[r], "UpdateVideo") <= 1
      /\ Cardinality(ObjectsPutBy(r)) <= 1
      /\ \A e \in VideoSteps : Calls(req[r], e) <= 1
      /\ Calls(req[r], "respond") <= 1
      /\ \A i, j \in 1..Len(req[r].trace) :
           (i < j /\ req[r].trace[i] = "respond") => req[r].trace[j] \notin VideoSteps

\* C12 witness: one upload returned 200 after exactly one put and one metadata
\* write; another failed at its one put and made no metadata write.
C12_Witness ==
  \E r1, r2 \in Requests :
    /\ IsVideo(req[r1]) /\ Returned200(req[r1])
    /\ Calls(req[r1], "PutObject") = 1 /\ Calls(req[r1], "UpdateVideo") = 1
    /\ IsVideo(req[r2]) /\ req[r2].pc = "done" /\ PutFailedIn(req[r2])
    /\ Calls(req[r2], "PutObject") = 1 /\ Calls(req[r2], "UpdateVideo") = 0

(***************************************************************************)
(* C13: when UpdateVideo fails after the put succeeded, the request ends   *)
(* with 500 in that step, the object it put stays in the store (nothing    *)
(* is deleted from it), the record is as it was before the step, and       *)
(* neither temp file exists when the handler has returned.  A call of      *)
(* UpdateVideo either stores the record it was handed or ends this way.    *)
(***************************************************************************)
C13_UpdateFailureKeepsObjectAndRecord ==
  [][\A r \in Requests :
       (IsVideo(req[r]) /\ Acted(r) /\ req[r].pc = "update") =>
         /\ Calls(req'[r], "UpdateVideo") = 1
         /\ \/ /\ req'[r].stored # NoVideo
               /\ records'[req[r].videoID] = req'[r].stored
            \/ /\ req'[r].stored = NoVideo
               /\ req'[r].pc = "done" /\ req'[r].resp = 500
               /\ records' = records
               /\ s3' = s3
               /\ \E o \in s3' : o.key = req[r].key
               /\ fs'[Staged(r)] = "absent" /\ fs'[Processed(r)] = "absent"]_vars

\* C13 witness: a request put its object, failed in UpdateVideo and returned
\* 500; the object is in the store, the record names no video, and the temp
\* files it created are gone.
C13_Witness ==
  \E r \in Requests :
    /\ IsVideo(req[r]) /\ req[r].pc = "done" /\ req[r].resp = 500
    /\ LastStepBeforeResponse(req[r]) = "UpdateVideo"
    /\ PutSucceededIn(req[r])
    /\ \E o \in s3 : o.key = req[r].key /\ o.from = r
    /\ records[req[r].videoID].VideoURL = NoURL
    /\ "ffmpeg" \in Range(req[r].trace)
    /\ TempFilesLeft(r) = {}

(***************************************************************************)
(* The two shapes of a video reference in the signed build.                *)
(***************************************************************************)
RawPair(bucket, key) == <<bucket, ",">> \o key
IsSignedURL(url) == "X-Amz-Signature" \in Range(url)

(***************************************************************************)
(* C14: in the signed build, the video reference of every record in the    *)
(* metadata store is either unset or the raw "<bucket>,<key>" pair of an   *)
(* upload to that record whose put succeeded, never a signed URL; the      *)
(* signed URL is carried only by the record copy a 200 response returns,   *)
(* generated for the bucket and the key of the pair that request stored.   *)
(***************************************************************************)
C14_PersistedReferenceIsRawPair ==
  videoVariant = "signed" =>
    /\ \A v \in VideoIDs :
         records[v].VideoURL # NoURL
           => /\ ~IsSignedURL(records[v].VideoURL)
              /\ \E r \in Requests :
                   /\ IsVideo(req[r]) /\ req[r].videoID = v /\ PutSucceededIn(req[r])
                   /\ records[v].VideoURL = RawPair(s3Bucket, req[r].key)
    /\ \A r \in Requests :
         (IsVideo(req[r]) /\ req[r].stored # NoVideo)
           => req[r].stored.VideoURL = RawPair(s3Bucket, req[r].key)
    /\ \A r \in Requests :
         (IsVideo(req[r]) /\ Returned200(req[r]))
           => /\ IsSignedURL(req[r].body.VideoURL)
              /\ req[r].body.VideoURL = PresignedURL(<<s3Bucket>>, req[r].key)
              /\ req[r].body.VideoURL # req[r].stored.VideoURL

\* C14 witness: in the signed build two uploads to one record returned 200 with
\* signed URLs, and the record holds the raw pair of one of them.
C14_Witness ==
  /\ videoVariant = "signed"
  /\ \E r1, r2 \in Requests :
       /\ r1 # r2 /\ req[r1].videoID = req[r2].videoID
       /\ IsVideo(req[r1]) /\ Returned200(req[r1]) /\ IsSignedURL(req[r1].body.VideoURL)
       /\ IsVideo(req[r2]) /\ Returned200(req[r2]) /\ IsSignedURL(req[r2].body.VideoURL)
       /\ req[r1].key # req[r2].key
       /\ records[req[r2].videoID].VideoURL = RawPair(s3Bucket, req[r2].key)

(***************************************************************************)
(* dbVideoToSignedVideo on its own: a record of the metadata store is      *)
(* resolved for a read.  The store of the signed build holds raw pairs     *)
(* written by its own uploads, plain URLs written by the static build      *)
(* before it (no comma), and records no video was uploaded for (a nil      *)
(* VideoURL, whose dereference at the first line panics).                  *)
(***************************************************************************)
Buckets == {s3Bucket, "tubely-private", "my.videos"}
DerivedKeys(variant) ==
  {DeriveKey(variant, ratio, n) : ratio \in {"landscape", "portrait", "other"}, n \in RandValues}

StoredReferences ==
  {[bucket |-> b, key |-> k, url |-> RawPair(b, k)] : b \in Buckets, k \in DerivedKeys("signed")}
    \cup {[bucket |-> "", key |-> k, url |-> VideoURLFor("static", k)] :
            k \in DerivedKeys("static")}
    \cup {[bucket |-> "", key |-> <<>>, url |-> NoURL]}

InitResolve ==
  /\ videoVariant = "signed"
  /\ thumbVariant \in {"data", "disk"}
  /\ records = [v \in VideoIDs |->
                  [ID |-> v, UserID |-> OwnerOf(v), VideoURL |-> NoURL, ThumbnailURL |-> NoURL]]
  /\ fs = [f \in FileNames |-> "absent"]
  /\ s3 = {}
  /\ req = [r \in Requests |-> IdleReq]
  /\ probe = IdleProbe
  /\ \E ref \in StoredReferences, v \in VideoIDs :
       resolve = [IdleResolve EXCEPT
                    !.state = "ready", !.bucket = ref.bucket, !.key = ref.key,
                    !.video = [ID |-> v, UserID |-> OwnerOf(v), VideoURL |-> ref.url,
                               ThumbnailURL |-> NoURL]]

ResolveRun ==
  /\ resolve.state = "ready"
  /\ \E presignFails \in BOOLEAN :
       IF resolve.video.VideoURL = NoURL
         THEN resolve' = [resolve EXCEPT !.state = "done", !.end = "panic"]
         ELSE LET got == dbVideoToSignedVideo(resolve.video, presignFails) IN
           resolve' = [resolve EXCEPT !.state = "done", !.out = got.video,
                                      !.end = IF got.err THEN "error" ELSE "ok"]
  /\ UNCHANGED <<videoVariant, thumbVariant, records, fs, s3, req, probe>>

NextResolve == ResolveRun

SpecResolve == InitResolve /\ [][NextResolve]_vars

\* The parts of a URL: the bucket its host starts with, and its path.
HostBucketOf(url) == Before(Tail(url), ".s3.")
PathOf(url) == Before(After(url, "/"), "?")

(***************************************************************************)
(* C15: for every bucket and every derived key, a record whose video       *)
(* reference is the raw pair "<bucket>,<key>" resolves through             *)
(* dbVideoToSignedVideo, when signing succeeds, to the URL generated for   *)
(* exactly that bucket and that key: the path of the resolved URL equals   *)
(* the stored key, and nothing else of the record changes.                 *)
(***************************************************************************)
C15_RawPairRoundTrip ==
  (resolve.state = "done" /\ resolve.bucket # "")
    => /\ resolve.end \in {"ok", "error"}
       /\ resolve.end = "ok"
            => /\ resolve.out.VideoURL = PresignedURL(<<resolve.bucket>>, resolve.key)
               /\ PathOf(resolve.out.VideoURL) = resolve.key
               /\ HostBucketOf(resolve.out.VideoURL) = <<resolve.bucket>>
               /\ resolve.out = [resolve.video EXCEPT !.VideoURL = resolve.out.VideoURL]

\* C15 witness: the pair of a bucket with a dot in its name and a portrait key
\* has been resolved to a URL whose path is that key.
C15_Witness ==
  /\ resolve.state = "done" /\ resolve.end = "ok"
  /\ resolve.bucket = "my.videos"
  /\ resolve.video.VideoURL = RawPair("my.videos", resolve.key)
  /\ FirstPathSegment(resolve.key) = <<"portrait">>
  /\ PathOf(resolve.out.VideoURL) = resolve.key

(***************************************************************************)
(* C16 as stated: URL resolution never returns an unsigned reference       *)
(* without an error; a record dbVideoToSignedVideo returns without error   *)
(* carries a signed URL and not the reference that was stored.             *)
(***************************************************************************)
C16_ResolvedRecordIsSigned ==
  (resolve.state = "done" /\ resolve.end = "ok")
    => /\ IsSignedURL(resolve.out.VideoURL)
       /\ resolve.out.VideoURL # resolve.video.VideoURL

(***************************************************************************)
(* Temp files a returned request created, and where in its trace an event  *)
(* lies.                                                                   *)
(***************************************************************************)
StagedCreated(r) ==
  \E i \in 1..(Len(req[r].trace) - 1) :
    req[r].trace[i] = "CreateTemp" /\ req[r].trace[i + 1] # "respond"
ProcessedCreated(r) ==
  "Remove processed" \in Range(req[r].trace) \/ fs[Processed(r)] # "absent"
Positions(q, event) == {i \in 1..Len(q.trace) : q.trace[i] = event}

\* The file got exactly one delete, after every step of the request and after
\* the response.
DeletedOnceAtTheEnd(r, file, removal) ==
  /\ Calls(req[r], removal) = 1
  /\ fs[file] = "absent"
  /\ \A i \in Positions(req[r], removal), j \in 1..Len(req[r].trace) :
       req[r].trace[j] \in VideoSteps \cup {"respond"} => j < i

(***************************************************************************)
(* C17 as stated: within one request, each temp file created receives      *)
(* exactly one delete, after all other work of the request (probe, remux,  *)
(* put, metadata write, response), whichever step failed.                  *)
(***************************************************************************)
C17_EachTempFileDeletedOnceAtTheEnd ==
  \A r \in Requests :
    (IsVideo(req[r]) /\ req[r].pc = "done") =>
      /\ StagedCreated(r) => DeletedOnceAtTheEnd(r, Staged(r), "Remove staged")
      /\ ProcessedCreated(r) => DeletedOnceAtTheEnd(r, Processed(r), "Remove processed")

(***************************************************************************)
(* The remux step of a request returned an output file before its put.     *)
(***************************************************************************)
RemuxSucceededBeforePut(q) ==
  \E i, j \in 1..Len(q.trace) :
    /\ i < j
    /\ q.trace[i] = "ffmpeg" /\ q.trace[i + 1] # "respond"
    /\ q.trace[j] = "PutObject"

(***************************************************************************)
(* C18 as stated: every object put to the store is the remuxed file of     *)
(* its request, put only after the remux step returned an output file that *)
(* exists with non-zero size; no object comes from the raw staged file or  *)
(* from a missing or empty processed file.                                 *)
(***************************************************************************)
C18_OnlyProcessedFileIsPut ==
  /\ \A o \in s3 : o.src = "processed" /\ o.content = "data"
  /\ \A r \in Requests :
       (IsVideo(req[r]) /\ "PutObject" \in Range(req[r].trace))
         => RemuxSucceededBeforePut(req[r])

(***************************************************************************)
(* C19 as stated: for every interleaving of a video upload and a thumbnail *)
(* upload by the owner on the same record, once both have returned 200 the *)
(* record holds the thumbnail reference the thumbnail upload wrote and the *)
(* video reference the video upload wrote.                                 *)
(***************************************************************************)
C19_NeitherWriteIsLost ==
  \A r1, r2 \in Requests :
    (/\ IsVideo(req[r1]) /\ Returned200(req[r1])
     /\ req[r2].kind = "thumbnail" /\ Returned200(req[r2])
     /\ req[r1].videoID = req[r2].videoID)
      => /\ records[req[r1].videoID].VideoURL = req[r1].stored.VideoURL
         /\ records[req[r1].videoID].ThumbnailURL = req[r2].stored.ThumbnailURL

\* The request's own UpdateVideo stored a record.
WroteRecord(q) ==
  \/ q.stored # NoVideo
  \/ \E i \in 1..(Len(q.trace) - 1) : q.trace[i] = "UpdateVideo" /\ q.trace[i + 1] # "respond"

(***************************************************************************)
(* C20 as stated: a video upload that ends with an error response (any     *)
(* status but 200) has not changed the metadata record, in every build,    *)
(* the failure of the signed-URL resolution included.                      *)
(***************************************************************************)
C20_ErrorResponseLeavesRecord ==
  \A r \in Requests :
    (IsVideo(req[r]) /\ req[r].pc = "done" /\ req[r].resp # 200) => ~WroteRecord(req[r])

====
